---- MODULE Spec2Model ----
(***************************************************************************)
(* MathPracs session reminders: lambda_handler of                          *)
(* src/session_reminders/handler/lambda_function.py as a state machine.    *)
(*                                                                         *)
(* Strings the code takes apart (summary, student name) are sequences of   *)
(* characters; instants are whole hours; an ISO string that is missing or  *)
(* does not parse is one of the two codes NoValue / BadIso.  The message   *)
(* body and the local-time fields start/end of the item (lines 53-54,      *)
(* 117-120, 141-142) are display only and are left out; status stands for  *)
(* the denormalized fields tutorId, sessionId, status and studentInfo.     *)
(***************************************************************************)
EXTENDS Integers, Sequences, FiniteSets, TLC

\* ------------------------------------------------------------------ bounds
\* The latest hour an invocation may capture as now_utc.
MaxNow == 2
\* The most scan calls the session store needs to hand out its items.
MaxPages == 2
\* The most records the session store holds.
MaxSessions == 2

\* -------------------------------------------------------- program constants
\* timedelta(hours=4)
WindowHours == 4
\* range(1, 6): the slots number1..number5
NumSlots == 5
\* the failure sentinel stored in sms_sent
NA == "N/A"

\* ------------------------------------------------------------------ values
\* dict.get() of an absent key, and a get_item response without 'Item'
None == "None"
\* an attribute that is absent, None or '' (all falsy for `not x`)
NoValue == -1
\* a utcStart / utcEnd string datetime.fromisoformat rejects
BadIso == -2

Jane == <<"J", "a", "n", "e">>
Tutoring == <<"T", "u", "t", "o", "r", "i", "n", "g">>
SpTutoring == <<" ">> \o Tutoring
SpLowerTutoring == <<" ", "t", "u", "t", "o", "r", "i", "n", "g">>

NewYork == "America/New_York"
BadZone == "Not/AZone"
NoZone == ""

\* the phone numbers of the student store
P1 == "+15551234567"
P2 == "+15557654321"
\* message.sid of a message the provider accepted (the ids are opaque to the
\* handler, which only stores them and compares them with the sentinel)
Sid == "SM"

\* ------------------------------------------------------- the stores' contents
\* One record of the session store.
Session(summary, start, tz, status) ==
    [summary |-> summary, utcStart |-> start,
     utcEnd |-> IF start >= 0 THEN start + 1 ELSE start,
     timezone |-> tz, status |-> status]

EarlyStart == 1
LateStart == MaxNow + WindowHours

\* The records the session store may hold, in the store's key order.
SessionPool ==
    << Session(Jane \o SpTutoring, EarlyStart, NewYork, "scheduled"),
       Session(Jane \o SpTutoring, BadIso, NewYork, "scheduled"),
       Session(Jane \o SpLowerTutoring, NoValue, NewYork, "scheduled"),
       Session(SpTutoring, EarlyStart, NewYork, "scheduled"),
       Session(Tutoring, EarlyStart, NewYork, "scheduled"),
       Session(Jane \o SpTutoring, LateStart, NewYork, "scheduled"),
       Session(Jane \o SpTutoring, EarlyStart, NewYork, "cancelled") >>

\* The records of SessionPool at the positions idx, ascending or descending.
RECURSIVE Pick(_, _)
Pick(idx, ascending) ==
    IF idx = {} THEN <<>>
    ELSE LET n == CHOOSE m \in idx : \A o \in idx : IF ascending THEN m <= o ELSE m >= o
         IN  <<SessionPool[n]>> \o Pick(idx \ {n}, ascending)

\* The session store: at most MaxSessions records, scanned in key order,
\* whichever way the keys happen to sort.
SessionTables ==
    { Pick(idx, asc) : idx \in { x \in SUBSET (1..Len(SessionPool)) : Cardinality(x) <= MaxSessions },
                       asc \in BOOLEAN }

\* One slot of a student: number_i = {phoneNumber, smsEnabled}.
Slot(phone, enabled) == [phoneNumber |-> phone, smsEnabled |-> enabled]

\* smsEnabled is compared with `is True`: "True" is the boolean, "true" a string.
JaneItems ==
    { (1 :> Slot(P1, "True")),
      (1 :> Slot(P1, "True")) @@ (2 :> Slot(P2, "True")),
      (1 :> Slot(P1, "True")) @@ (2 :> Slot(P1, "True")),
      (1 :> Slot(None, "True")),
      (1 :> Slot(P1, "true")) @@ (NumSlots :> Slot(P2, "False")) }

TutoringItem == (NumSlots :> Slot(P2, "True"))

\* The student store: the items present, by studentName.
StudentStores ==
    { (Tutoring :> TutoringItem) }
    \cup { (Jane :> item) @@ (Tutoring :> TutoringItem) : item \in JaneItems }

VARIABLES
    sessions_table,     \* the session store: its records in scan order
    students_table,     \* the student store: studentName -> item
    reminders_table,    \* the reminder store: uid -> item
    pc,                 \* where the invocation stands
    now_utc,            \* the instant captured at line 30
    start_key,          \* ExclusiveStartKey of the next scan call: records already read
    pages,              \* the scan calls made so far
    sessions,           \* scan_all_sessions' list
    i,                  \* position of the session loop (line 38)
    uid,                \* line 96
    existing_reminder,  \* lines 99-103: <<>> for None, <<item>> otherwise
    reminder_lookup,    \* which branch of lines 99-103 ran: "ok" | "raised" | "none"
    sms_sent,           \* line 106, then filled by the send loop
    phones_to_send,     \* lines 107-111
    k,                  \* position of the send loop (line 123)
    results,            \* line 37
    response,           \* what the last invocation returned
    sent,               \* the provider calls of this invocation, in order
    writes,             \* the put_item calls of this invocation, in order
    student_errors,     \* the loop positions whose student lookup raised (lines 76-78)
    other               \* a second, overlapping invocation: its own now_utc .. writes

vars == <<sessions_table, students_table, reminders_table, pc, now_utc, start_key, pages,
          sessions, i, uid, existing_reminder, reminder_lookup, sms_sent,
          phones_to_send, k, results, response, sent, writes, student_errors, other>>

stores == <<sessions_table, students_table, reminders_table>>
locals == <<uid, existing_reminder, reminder_lookup, sms_sent, phones_to_send, k>>

EmptyMap == [p \in {} |-> NA]
NoUid == <<>>
NoResponse == [statusCode |-> 0]
\* an invocation that has not started
NotStarted ==
    [pc |-> "idle", now_utc |-> 0, start_key |-> 0, pages |-> 0, sessions |-> <<>>,
     i |-> 1, uid |-> NoUid, existing_reminder |-> <<>>, reminder_lookup |-> "none",
     sms_sent |-> EmptyMap, phones_to_send |-> <<>>, k |-> 1, results |-> <<>>,
     response |-> NoResponse, sent |-> <<>>, writes |-> <<>>, student_errors |-> {}]

\* ------------------------------------------------------------ pure helpers
\* str.replace(old, ''): every non-overlapping occurrence, left to right.
RECURSIVE Remove(_, _)
Remove(s, old) ==
    IF Len(s) < Len(old) THEN s
    ELSE IF SubSeq(s, 1, Len(old)) = old
         THEN Remove(SubSeq(s, Len(old) + 1, Len(s)), old)
         ELSE <<Head(s)>> \o Remove(Tail(s), old)

\* A strip that takes the word without the space in front of it.
StudentName_StripsWord(summary) ==
    Remove(Remove(summary, Tail(SpTutoring)), Tail(SpLowerTutoring))

\* line 63
StudentName(summary) == Remove(Remove(summary, SpTutoring), SpLowerTutoring)

\* line 44: any of the three fields falsy
MissingFields(session) ==
    \/ session.utcStart = NoValue
    \/ session.utcEnd = NoValue
    \/ session.timezone = NoZone

\* lines 47-54: fromisoformat or ZoneInfo raises
ParseRaises(session) ==
    \/ session.utcStart = BadIso
    \/ session.utcEnd = BadIso
    \/ session.timezone = BadZone

\* A filter that forgets the lower bound.
InWindow_NoLowerBound(now, start_utc) == start_utc <= now + WindowHours

\* line 57
InWindow(now, start_utc) == now <= start_utc /\ start_utc <= now + WindowHours

\* lines 81-87: slot order, duplicates kept, an absent phoneNumber is None
RECURSIVE PhonesFrom(_, _)
PhonesFrom(student, n) ==
    IF n > NumSlots THEN <<>>
    ELSE (IF n \in DOMAIN student /\ student[n].smsEnabled = "True"
          THEN <<student[n].phoneNumber>> ELSE <<>>) \o PhonesFrom(student, n + 1)

\* A list that drops a number it already holds.
RECURSIVE Deduplicated(_)
Deduplicated(seq) ==
    IF seq = <<>> THEN <<>>
    ELSE LET front == Deduplicated(SubSeq(seq, 1, Len(seq) - 1))
             last == seq[Len(seq)]
         IN  IF \E n \in 1..Len(front) : front[n] = last THEN front
             ELSE Append(front, last)
PhoneNumbers_Deduplicated(student) == Deduplicated(PhonesFrom(student, 1))

PhoneNumbers(student) == PhonesFrom(student, 1)

\* A uid that tells records of one occurrence apart by their status.
Uid_WithStatus(session) ==
    <<session.summary, session.utcStart, session.utcEnd, session.status>>

\* line 96
Uid(session) == <<session.summary, session.utcStart, session.utcEnd>>

\* A lookup that reads the wrong response key and so never finds the item.
LookupReminder_NeverFinds(reminders, u, raises) == <<>>

\* A lookup whose error is swallowed by a retry that then answers.
LookupReminder_IgnoresError(reminders, u, raises) ==
    IF u \notin DOMAIN reminders THEN <<>> ELSE <<reminders[u]>>

\* lines 99-103: the stored item, or None when there is none or get_item raises
LookupReminder(reminders, u, raises) ==
    IF raises \/ u \notin DOMAIN reminders THEN <<>> ELSE <<reminders[u]>>

\* A start map that ignores the looked-up item.
SmsSentOf_Empty(existing) == EmptyMap

\* line 106
SmsSentOf(existing) == IF existing = <<>> THEN EmptyMap ELSE existing[1].sms_sent

\* A selection that forgets the `not in sms_sent` test.
PhonesToSend_All(phone_numbers, map) == phone_numbers

\* A selection that sends again to the phones stored with the sentinel.
PhonesToSend_RetryFailed(phone_numbers, map) ==
    SelectSeq(phone_numbers, LAMBDA phone : phone \notin DOMAIN map \/ map[phone] = NA)

\* A selection that takes one new phone per run and leaves the rest to later runs.
PhonesToSend_OnePerRun(phone_numbers, map) ==
    LET todo == SelectSeq(phone_numbers, LAMBDA phone : phone \notin DOMAIN map)
    IN  IF todo = <<>> THEN <<>> ELSE <<Head(todo)>>

\* lines 107-111
PhonesToSend(phone_numbers, map) ==
    SelectSeq(phone_numbers, LAMBDA phone : phone \notin DOMAIN map)

\* A count that takes every key of the map, the "N/A" ones too.
SmsSentCount_AllKeys(map) == Cardinality(DOMAIN map)

\* line 159
SmsSentCount(map) == Cardinality({p \in DOMAIN map : map[p] # NA})

\* A write that merges its entries into the sms_sent map the store holds by then
\* (an update of the item) instead of replacing the item.
ReminderItem_KeepsStored(session, u, map) ==
    [uid |-> u, summary |-> session.summary, start_utc |-> session.utcStart,
     end_utc |-> session.utcEnd, status |-> session.status,
     sms_sent |-> map @@ (IF u \in DOMAIN reminders_table
                           THEN reminders_table[u].sms_sent ELSE [p \in {} |-> NA])]

\* A write that carries the key and the sms_sent map only (an update of one
\* attribute) instead of the full item.
ReminderItem_OnlySmsSent(session, u, map) == [uid |-> u, sms_sent |-> map]

\* lines 138-152
ReminderItem(session, u, map) ==
    [uid |-> u, summary |-> session.summary, start_utc |-> session.utcStart,
     end_utc |-> session.utcEnd, status |-> session.status, sms_sent |-> map]

\* lines 156-160
ResultEntry(session, map) ==
    [summary |-> session.summary, student_name |-> StudentName(session.summary),
     sms_sent_count |-> SmsSentCount(map)]

\* lines 162-168
SuccessResponse(res) ==
    [statusCode |-> 200,
     body |-> [message |-> "MathPracs Session Reminders executed successfully",
               results |-> res]]

\* An error envelope that also hands back what was collected.
ErrorResponse_WithResults(text) ==
    [statusCode |-> 500, body |-> [error |-> text, results |-> results]]

\* lines 170-175
ErrorResponse(text) == [statusCode |-> 500, body |-> [error |-> text]]

\* ------------------------------------------------------------------- Init
Init ==
    /\ sessions_table \in SessionTables
    /\ students_table = (Tutoring :> TutoringItem)
    /\ reminders_table = [u \in {} |-> 0]
    /\ pc = "idle"
    /\ now_utc = 0
    /\ start_key = 0
    /\ pages = 0
    /\ sessions = <<>>
    /\ i = 1
    /\ uid = NoUid
    /\ existing_reminder = <<>>
    /\ reminder_lookup = "none"
    /\ sms_sent = EmptyMap
    /\ phones_to_send = <<>>
    /\ k = 1
    /\ results = <<>>
    /\ response = NoResponse
    /\ sent = <<>>
    /\ writes = <<>>
    /\ student_errors = {}
    /\ other = NotStarted

ResetLocals ==
    /\ uid' = NoUid
    /\ existing_reminder' = <<>>
    /\ reminder_lookup' = "none"
    /\ sms_sent' = EmptyMap
    /\ phones_to_send' = <<>>
    /\ k' = 1

\* lines 170-175: the outer except ends the invocation
Abort(text) ==
    /\ response' = ErrorResponse(text)
    /\ pc' = "idle"

\* -------------------------------------------------------------- the handler
\* lines 12-31 and 37: configuration, get_secrets, the stores, now_utc. The
\* clock never runs backwards, and the student store is whatever its owner has
\* made of it by the time of the invocation.
Invoke ==
    /\ pc = "idle"
    /\ \E st \in StudentStores : students_table' = st
    /\ \E secretsOk \in BOOLEAN, t \in 1..MaxNow :
          /\ t >= now_utc
          /\ IF secretsOk
             THEN /\ now_utc' = t
                  /\ pc' = "scan"
                  /\ response' = NoResponse
             ELSE /\ Abort("get_secret_value failed")
                  /\ UNCHANGED now_utc
    /\ start_key' = 0
    /\ pages' = 0
    /\ sessions' = <<>>
    /\ i' = 1
    /\ results' = <<>>
    /\ sent' = <<>>
    /\ writes' = <<>>
    /\ student_errors' = {}
    /\ ResetLocals
    /\ UNCHANGED <<sessions_table, reminders_table, other>>

\* A scan that passes no ExclusiveStartKey and so reads from the start again.
Page_FromStart(table, key, n) == SubSeq(table, 1, n)

\* lines 187 and 192: the n records a scan call returns after ExclusiveStartKey
Page(table, key, n) == SubSeq(table, key + 1, key + n)

\* lines 184-195 (and 34): one table.scan call of scan_all_sessions. The store
\* chooses how many records the page holds and whether a LastEvaluatedKey comes
\* with it; the page of the last call it needs holds the rest and no key.
ScanPage ==
    /\ pc = "scan"
    /\ \E scanOk \in BOOLEAN, n \in 0..Len(sessions_table), more \in BOOLEAN :
          /\ start_key + n <= Len(sessions_table)
          /\ ~more => start_key + n = Len(sessions_table)
          /\ pages + 1 >= MaxPages => ~more
          /\ IF scanOk
             THEN /\ sessions' = sessions \o Page(sessions_table, start_key, n)
                  /\ IF more
                     THEN start_key' = start_key + n /\ pages' = pages + 1 /\ pc' = "scan"
                     ELSE start_key' = 0 /\ pages' = 0 /\ pc' = "loop"
                  /\ UNCHANGED response
             ELSE /\ Abort("scan failed")
                  /\ UNCHANGED <<sessions, start_key, pages>>
    /\ UNCHANGED <<stores, now_utc, i, locals, results, sent, writes, student_errors, other>>

\* `continue`: on to the next session
Skip ==
    /\ i' = i + 1
    /\ pc' = "loop"
    /\ ResetLocals
    /\ UNCHANGED response

\* A student lookup with no try around it: the failure reaches the outer except.
StudentNotResolved_Raises == Abort("student lookup failed") /\ UNCHANGED <<i, locals>>

\* lines 76-78 (and 71-73): the student lookup failed or found nothing
StudentNotResolved == Skip

\* lines 105-115, entered with the lookup's answer
Dispatch(session, existing, lookup) ==
    LET map == SmsSentOf(existing)
        todo == PhonesToSend(PhoneNumbers(students_table[StudentName(session.summary)]), map)
    IN  IF todo = <<>>
        THEN Skip
        ELSE /\ uid' = Uid(session)
             /\ existing_reminder' = existing
             /\ reminder_lookup' = lookup
             /\ sms_sent' = map
             /\ phones_to_send' = todo
             /\ k' = 1
             /\ pc' = "send"
             /\ UNCHANGED <<i, response>>

\* lines 38-115: one session up to the decision to send.
ProcessSession ==
    /\ pc = "loop"
    /\ i <= Len(sessions)
    /\ LET session == sessions[i]
           student_name == StudentName(session.summary)
       IN  \E studentRaises \in BOOLEAN, reminderRaises \in BOOLEAN :
          /\ IF MissingFields(session) THEN Skip
             ELSE IF ParseRaises(session)
             THEN Abort("invalid timestamp or time zone") /\ UNCHANGED <<i, locals>>
             ELSE IF ~InWindow(now_utc, session.utcStart) THEN Skip
             ELSE IF student_name = <<>> THEN Skip
             ELSE IF studentRaises \/ student_name \notin DOMAIN students_table
             THEN StudentNotResolved
             ELSE IF PhoneNumbers(students_table[student_name]) = <<>> THEN Skip
             ELSE Dispatch(session,
                           LookupReminder(reminders_table, Uid(session), reminderRaises),
                           IF reminderRaises THEN "raised" ELSE "ok")
          /\ student_errors' =
                IF /\ ~MissingFields(session) /\ ~ParseRaises(session)
                   /\ InWindow(now_utc, session.utcStart) /\ student_name # <<>>
                   /\ studentRaises
                THEN student_errors \cup {i} ELSE student_errors
    /\ UNCHANGED <<stores, now_utc, start_key, pages, sessions, results, sent, writes, other>>

\* A send loop with the write inside it: put_item follows the first send.
SendSms_WritesInsideLoop ==
    /\ pc = "send"
    /\ k <= Len(phones_to_send)
    /\ LET phone == phones_to_send[k]
       IN  \E raises \in BOOLEAN :
             /\ phone = None => raises
             /\ LET sid == IF raises THEN NA ELSE Sid
                IN  /\ sms_sent' = (phone :> sid) @@ sms_sent
                    /\ sent' = Append(sent, [i |-> i, uid |-> uid, to |-> phone, sid |-> sid])
    /\ k' = k + 1
    /\ pc' = "put"
    /\ UNCHANGED <<stores, now_utc, start_key, pages, sessions, i, uid, existing_reminder,
                   reminder_lookup, phones_to_send, results, response, writes,
                   student_errors, other>>

\* lines 123-135: one pass of the send loop; a number the provider rejects
\* (None) always raises.
SendSms ==
    /\ pc = "send"
    /\ k <= Len(phones_to_send)
    /\ LET phone == phones_to_send[k]
       IN  \E raises \in BOOLEAN :
             /\ phone = None => raises
             /\ LET sid == IF raises THEN NA ELSE Sid
                IN  /\ sms_sent' = (phone :> sid) @@ sms_sent
                    /\ sent' = Append(sent, [i |-> i, uid |-> uid, to |-> phone, sid |-> sid])
    /\ k' = k + 1
    /\ pc' = IF k = Len(phones_to_send) THEN "put" ELSE "send"
    /\ UNCHANGED <<stores, now_utc, start_key, pages, sessions, i, uid, existing_reminder,
                   reminder_lookup, phones_to_send, results, response, writes,
                   student_errors, other>>

\* lines 137-160: put_item, then results.append; put_item raises when the store
\* fails and always when a key of sms_sent is None (not a string).
PutReminder ==
    /\ pc = "put"
    /\ \E putOk \in BOOLEAN :
          /\ None \in DOMAIN sms_sent => ~putOk
          /\ writes' = Append(writes, [i |-> i, uid |-> uid, ok |-> putOk,
                                    lookup |-> reminder_lookup])
          /\ IF putOk
             THEN /\ reminders_table' =
                        (uid :> ReminderItem(sessions[i], uid, sms_sent)) @@ reminders_table
                  /\ results' = Append(results, ResultEntry(sessions[i], sms_sent))
                  /\ Skip
             ELSE /\ Abort("put_item failed")
                  /\ UNCHANGED <<reminders_table, results, i, locals>>
    /\ UNCHANGED <<sessions_table, students_table, now_utc, start_key, pages, sessions, sent,
                   student_errors, other>>

\* lines 162-168
Return ==
    /\ pc = "loop"
    /\ i > Len(sessions)
    /\ response' = SuccessResponse(results)
    /\ pc' = "idle"
    /\ UNCHANGED <<stores, now_utc, start_key, pages, sessions, i, locals, results, sent, writes,
                   student_errors, other>>

Next ==
    \/ Invoke
    \/ ScanPage
    \/ ProcessSession
    \/ SendSms
    \/ PutReminder
    \/ Return

Spec == Init /\ [][Next]_vars

\* --------------------------------------------------- overlapping invocations
\* Two invocations of lambda_handler (lines 11-175) share the three stores and
\* nothing else. The platform runs them in any interleaving of their store and
\* provider calls: Switch parks the running invocation and resumes the other.
Running ==
    [pc |-> pc, now_utc |-> now_utc, start_key |-> start_key, pages |-> pages,
     sessions |-> sessions, i |-> i, uid |-> uid,
     existing_reminder |-> existing_reminder, reminder_lookup |-> reminder_lookup,
     sms_sent |-> sms_sent, phones_to_send |-> phones_to_send, k |-> k,
     results |-> results, response |-> response, sent |-> sent, writes |-> writes,
     student_errors |-> student_errors]

Switch ==
    /\ other' = Running
    /\ pc' = other.pc
    /\ now_utc' = other.now_utc
    /\ start_key' = other.start_key
    /\ pages' = other.pages
    /\ sessions' = other.sessions
    /\ i' = other.i
    /\ uid' = other.uid
    /\ existing_reminder' = other.existing_reminder
    /\ reminder_lookup' = other.reminder_lookup
    /\ sms_sent' = other.sms_sent
    /\ phones_to_send' = other.phones_to_send
    /\ k' = other.k
    /\ results' = other.results
    /\ response' = other.response
    /\ sent' = other.sent
    /\ writes' = other.writes
    /\ student_errors' = other.student_errors
    /\ UNCHANGED stores

\* Each of the two invocations is started once.
InvokeOnce == Invoke /\ response = NoResponse

\* The session store of the overlap: one record.
InitOverlap == Init /\ Len(sessions_table) = 1

NextOverlap ==
    \/ InvokeOnce
    \/ ScanPage
    \/ ProcessSession
    \/ SendSms
    \/ PutReminder
    \/ Return
    \/ Switch

SpecOverlap == InitOverlap /\ [][NextOverlap]_vars

\* ------------------------------------------------------------------ claims
\* The step is a provider call (lines 125-130): the log of sends grew.
Sends == Len(sent') = Len(sent) + 1
\* The step is a put_item call (line 154).
Puts == Len(writes') = Len(writes) + 1
\* The keys of the sms_sent map stored under u (none when no item is stored).
StoredKeys(u) ==
    IF u \in DOMAIN reminders_table THEN DOMAIN reminders_table[u].sms_sent ELSE {}
\* The phones messaged for the j-th session of this invocation, in order.
SentTo(j) == SelectSeq(sent, LAMBDA m : m.i = j)
\* The session is past every check before the student lookup (lines 44-66).
Admitted(session) ==
    /\ session.utcStart >= 0 /\ session.utcEnd >= 0
    /\ session.timezone = NewYork
    /\ now_utc <= session.utcStart /\ session.utcStart <= now_utc + 4
    /\ StudentName(session.summary) # <<>>
\* The eligible phones of the session's student, as a set (none when the student
\* is not in the store).
Eligible(session) ==
    LET name == StudentName(session.summary)
    IN  IF name \in DOMAIN students_table
        THEN { students_table[name][n].phoneNumber :
                 n \in { m \in DOMAIN students_table[name] :
                           students_table[name][m].smsEnabled = "True" } }
        ELSE {}
\* The session is admitted, its student has eligible phones, and each of them is
\* a key of the stored sms_sent of its uid.
FullyReminded(session) ==
    /\ Admitted(session)
    /\ Eligible(session) # {}
    /\ Eligible(session) \subseteq StoredKeys(Uid(session))
\* The step leaves the session behind with no effect at all.
SkipsSession ==
    /\ pc' = "loop" /\ i' = i + 1
    /\ UNCHANGED <<reminders_table, results, sent, writes, response>>
\* The handler is about to process sessions[i] (line 38).
AtSession == pc = "loop" /\ i <= Len(sessions)

\* C1 (as stated): no message is ever sent for a uid to a phone that is a key of
\* the stored sms_sent of that uid.
C1_NeverSendsToStoredPhone ==
    [][Sends => sent'[Len(sent')].to \notin StoredKeys(sent'[Len(sent')].uid)]_vars

\* C1 (amended): a message for a uid goes to a phone that is a key of the stored
\* sms_sent of that uid only in a session whose Reminder lookup raised; when the
\* lookup answered, no stored phone is messaged.
C1_NoResendUnlessLookupRaised ==
    [][Sends /\ reminder_lookup = "ok"
         => sent'[Len(sent')].to \notin StoredKeys(sent'[Len(sent')].uid)]_vars

\* C1 witness: a message went out for a uid whose stored Reminder already holds
\* other phones, after a lookup that answered.
C1_Witness ==
    /\ pc \in {"send", "put"}
    /\ reminder_lookup = "ok"
    /\ StoredKeys(uid) # {}
    /\ SentTo(i) # <<>>

\* C2 (as stated): a session whose eligible phones are all stored keys is left
\* behind with no send, no write and no results entry.
C2_FullyRemindedAlwaysSkipped ==
    [][AtSession /\ FullyReminded(sessions[i]) => SkipsSession]_vars

\* C2 (amended): a session whose eligible phones are all keys of the stored
\* sms_sent is left behind with no send, no Reminder write (the stored item keeps
\* every field) and no results entry, unless its Reminder lookup raises.
C2_FullyRemindedSkippedUnlessLookupRaised ==
    [][AtSession /\ FullyReminded(sessions[i]) /\ reminder_lookup' # "raised"
         => SkipsSession]_vars

\* C2 witness: the previous session was fully reminded, nothing was sent or
\* written for it, and the stored item still differs from the session's fields.
C2_Witness ==
    /\ pc = "loop" /\ i > 1
    /\ FullyReminded(sessions[i - 1])
    /\ SentTo(i - 1) = <<>>
    /\ \A n \in 1..Len(writes) : writes[n].i # i - 1
    /\ reminders_table[Uid(sessions[i - 1])].status # sessions[i - 1].status

\* The set of phones messaged for the j-th session of this invocation.
SentSet(j) == { SentTo(j)[n].to : n \in 1..Len(SentTo(j)) }
\* The outcome of the last provider call to phone p for the j-th session.
LastOutcome(j, p) ==
    LET calls == SelectSeq(SentTo(j), LAMBDA m : m.to = p)
    IN  calls[Len(calls)].sid
\* The step is a put_item call that stored the item.
PutsStored == Puts /\ writes'[Len(writes')].ok
\* put_item stored an item for the j-th session of this invocation.
Written(j) == \E n \in 1..Len(writes) : writes[n].i = j /\ writes[n].ok

\* C3 (as stated): a dispatch for a session with a stored Reminder writes back the
\* union of the stored entries, unchanged, and one entry per newly sent phone, and
\* sends to exactly the eligible phones that were not stored keys.
C3_WritesUnionOfOldAndNew ==
    [][PutsStored /\ uid \in DOMAIN reminders_table
         => LET old == reminders_table[uid].sms_sent
                new == reminders_table'[uid].sms_sent
            IN  /\ \A p \in DOMAIN old : p \in DOMAIN new /\ new[p] = old[p]
                /\ DOMAIN new = DOMAIN old \cup SentSet(i)
                /\ SentSet(i) = Eligible(sessions[i]) \ DOMAIN old]_vars

\* C3 (amended): the same, for a dispatch whose Reminder lookup answered; after a
\* lookup that raised the map written holds this run's sends only.
C3_WritesUnionWhenLookupAnswered ==
    [][PutsStored /\ uid \in DOMAIN reminders_table /\ reminder_lookup = "ok"
         => LET old == reminders_table[uid].sms_sent
                new == reminders_table'[uid].sms_sent
            IN  /\ \A p \in DOMAIN old : p \in DOMAIN new /\ new[p] = old[p]
                /\ DOMAIN new = DOMAIN old \cup SentSet(i)
                /\ SentSet(i) = Eligible(sessions[i]) \ DOMAIN old]_vars

\* C3 witness: an item was written for a session of this run, and it holds both
\* the phones just messaged and phones kept from the stored item.
C3_Witness ==
    \E j \in 1..Len(sessions) :
       /\ Written(j)
       /\ j < i
       /\ SentSet(j) # {}
       /\ SentSet(j) \subseteq StoredKeys(Uid(sessions[j]))
       /\ StoredKeys(Uid(sessions[j])) # SentSet(j)

\* C4 (as stated, its last part): once the sentinel is stored under a phone of a
\* uid, no later send goes to that phone for that uid.
C4_FailedSendNeverRetried ==
    [][Sends => LET m == sent'[Len(sent')]
                IN  ~(m.to \in StoredKeys(m.uid)
                      /\ reminders_table[m.uid].sms_sent[m.to] = NA)]_vars

\* C4 (amended): when the last provider call to a phone in a session's dispatch
\* raised, the item put_item stores holds "N/A" under that phone and the results
\* entry counts only the keys whose value is not "N/A"; and a phone stored with
\* "N/A" is not messaged again for that uid by a session whose lookup answered.
C4_SentinelStoredAndNotRetriedAfterLookup ==
    [][/\ PutsStored
          => LET new == reminders_table'[uid].sms_sent
             IN  /\ \A p \in SentSet(i) : LastOutcome(i, p) = NA => new[p] = NA
                 /\ results'[Len(results')].sms_sent_count
                      = Cardinality({ q \in DOMAIN new : new[q] # NA })
       /\ Sends /\ reminder_lookup = "ok"
          => LET m == sent'[Len(sent')]
             IN  ~(m.to \in StoredKeys(m.uid)
                   /\ reminders_table[m.uid].sms_sent[m.to] = NA)]_vars

\* C4 witness: the previous session is admitted, an eligible phone of its student
\* is stored with "N/A", and the session was left behind with nothing sent
\* and nothing written.
C4_Witness ==
    /\ pc = "loop" /\ i > 1
    /\ Admitted(sessions[i - 1])
    /\ \E p \in Eligible(sessions[i - 1]) :
          /\ p \in StoredKeys(Uid(sessions[i - 1]))
          /\ reminders_table[Uid(sessions[i - 1])].sms_sent[p] = NA
    /\ SentTo(i - 1) = <<>>
    /\ ~Written(i - 1)

\* C5: every send and every Reminder write of an invocation is for a session with
\* now_utc <= start_utc <= now_utc + 4 hours, now_utc being the one instant the
\* invocation captured, and results holds one entry per stored item and no other.
C5_EffectsOnlyInsideWindow ==
    /\ \A n \in 1..Len(sent) :
          /\ now_utc <= sessions[sent[n].i].utcStart
          /\ sessions[sent[n].i].utcStart <= now_utc + 4
    /\ \A n \in 1..Len(writes) :
          /\ now_utc <= sessions[writes[n].i].utcStart
          /\ sessions[writes[n].i].utcStart <= now_utc + 4
    /\ Len(results) = Cardinality({ n \in 1..Len(writes) : writes[n].ok })

\* C5 witness: a finished run messaged for a session starting exactly four hours
\* after now_utc and did nothing for a session that had already started.
C5_Witness ==
    /\ pc = "idle" /\ response.statusCode = 200
    /\ \E j, l \in 1..Len(sessions) :
          /\ sessions[j].utcStart = now_utc + 4
          /\ SentTo(j) # <<>> /\ Written(j)
          /\ sessions[l].utcStart >= 0 /\ sessions[l].utcStart < now_utc
          /\ SentTo(l) = <<>> /\ ~Written(l)

\* The student of the session is not in the student store.
StudentMissing(session) == StudentName(session.summary) \notin DOMAIN students_table

\* C6: at a session that is past the checks before the student lookup, the step
\* never ends the run; it either leaves the session behind with no send, no write
\* and no results entry (so the next session is processed from the very state the
\* run would be in without it) or goes on to send, and it leaves the session
\* behind whenever the student is not in the store.
C6_UnresolvedStudentOnlySkips ==
    [][AtSession /\ Admitted(sessions[i])
         => /\ response' = response
            /\ pc' \in {"loop", "send"}
            /\ pc' = "loop" => SkipsSession
            /\ StudentMissing(sessions[i]) => SkipsSession]_vars

\* C6 witness: a session whose student is not in the store was left behind with
\* no effect, and a later session of the same run was messaged for.
C6_Witness ==
    \E j, l \in 1..Len(sessions) :
       /\ j < l
       /\ Admitted(sessions[j]) /\ StudentMissing(sessions[j])
       /\ SentTo(j) = <<>> /\ ~Written(j)
       /\ SentTo(l) # <<>>

\* C7 (as stated): a 500 response comes from a configuration, secret-fetch or
\* session-scan error only; no failure met while processing a session ends the run.
C7_OnlyFatalErrorsAbort ==
    response.statusCode = 500
      => response.body.error \in {"get_secret_value failed", "scan failed"}

\* C8: the response is the 200 envelope with the whole results list or the 500
\* envelope with the error text alone; with a 500 the items stored earlier in the
\* run are still stored and hold the phones messaged for their sessions.
C8_TwoEnvelopesNothingRolledBack ==
    \/ response = NoResponse
    \/ /\ response.statusCode = 200
       /\ DOMAIN response.body = {"message", "results"}
       /\ response.body.results = results
    \/ /\ response.statusCode = 500
       /\ DOMAIN response.body = {"error"}
       /\ \A j \in 1..Len(sessions) :
             Written(j) => SentSet(j) \subseteq StoredKeys(Uid(sessions[j]))

\* C8 witness: a run ended with 500 after it had messaged and stored the item of
\* an earlier session, whose results entry the response does not carry.
C8_Witness ==
    /\ pc = "idle" /\ response.statusCode = 500
    /\ results # <<>>
    /\ \E j \in 1..Len(sessions) : Written(j) /\ SentSet(j) # {}

\* C9: when the Reminder lookup raises, the run goes on with no existing Reminder:
\* every eligible phone is selected, and the item put_item stores holds exactly
\* the outcomes of this run's sends to the eligible phones.
C9_LookupErrorMeansNoReminder ==
    [][/\ AtSession /\ reminder_lookup' = "raised"
          => /\ pc' = "send" /\ response' = response
             /\ existing_reminder' = <<>> /\ sms_sent' = EmptyMap
             /\ { phones_to_send'[n] : n \in 1..Len(phones_to_send') }
                  = Eligible(sessions[i])
       /\ PutsStored /\ reminder_lookup = "raised"
          => LET new == reminders_table'[uid].sms_sent
             IN  /\ DOMAIN new = SentSet(i)
                 /\ SentSet(i) = Eligible(sessions[i])
                 /\ \A p \in DOMAIN new : new[p] = LastOutcome(i, p)]_vars

\* C9 witness: after a lookup that raised, phones that are keys of the stored item
\* were messaged again and the new item is about to be written.
C9_Witness ==
    /\ pc = "put" /\ reminder_lookup = "raised"
    /\ SentSet(i) \cap StoredKeys(uid) # {}

\* The provider calls to phone p for the j-th session of this invocation.
SendCount(j, p) == Len(SelectSeq(SentTo(j), LAMBDA m : m.to = p))
\* The put_item calls for the j-th session of this invocation.
WriteCount(j) == Cardinality({ n \in 1..Len(writes) : writes[n].i = j })
\* The SMS-enabled slots of the session's student that hold phone p.
EnabledSlots(session, p) ==
    LET student == students_table[StudentName(session.summary)]
    IN  Cardinality({ n \in DOMAIN student :
                        student[n].smsEnabled = "True" /\ student[n].phoneNumber = p })

\* C10 (as stated): no phone is messaged twice for one session in one run, and a
\* dispatched session has exactly one put_item call.
C10_OneMessagePerPhone ==
    \A j \in 1..Len(sessions) :
       /\ \A p \in SentSet(j) : SendCount(j, p) = 1
       /\ WriteCount(j) <= 1
       /\ SentTo(j) # <<>> /\ j < i => WriteCount(j) = 1

\* C10 (amended): a dispatched session has exactly one put_item call, and each
\* phone messaged for it got one provider call per SMS-enabled slot holding it.
C10_OneMessagePerSlotOneWrite ==
    \A j \in 1..Len(sessions) :
       /\ WriteCount(j) <= 1
       /\ SentTo(j) # <<>> /\ j < i => WriteCount(j) = 1
       /\ WriteCount(j) = 1
          => /\ SentTo(j) # <<>>
             /\ \A p \in SentSet(j) : SendCount(j, p) = EnabledSlots(sessions[j], p)

\* C10 witness: an item was stored for a session after two provider calls to the
\* one number of its two SMS-enabled slots.
C10_Witness ==
    \E j \in 1..Len(sessions) :
       /\ Written(j)
       /\ \E p \in SentSet(j) : SendCount(j, p) = 2

\* C11: a stored put_item appends exactly one results entry, for the session just
\* written, whose sms_sent_count is the number of keys of the map just stored
\* whose value is not "N/A" (carried-over keys included); no other step of a run
\* adds, removes or changes a results entry; and the 200 response returns that
\* list, which has one entry per put_item call of the run, in scan order.
C11_ResultsMirrorWrites ==
    [][/\ PutsStored =>
            /\ Len(results') = Len(results) + 1
            /\ SubSeq(results', 1, Len(results)) = results
            /\ results'[Len(results')].summary = sessions[i].summary
            /\ results'[Len(results')].sms_sent_count =
                   Cardinality({ p \in DOMAIN reminders_table'[uid].sms_sent :
                                   reminders_table'[uid].sms_sent[p] # NA })
       /\ (~PutsStored /\ pc # "idle") => results' = results
       /\ (pc # "idle" /\ pc' = "idle" /\ response'.statusCode = 200) =>
            /\ response'.body.results = results
            /\ Len(results) = Len(writes)
            /\ \A n \in 1..Len(writes) :
                  /\ writes[n].ok
                  /\ results[n].summary = sessions[writes[n].i].summary
                  /\ n > 1 => writes[n - 1].i < writes[n].i
      ]_vars
\* A 200 response with two entries, one of which counts more delivered phones
\* than the run delivered for its session: a carried-over key is counted.
C11_Witness ==
    /\ pc = "idle" /\ response.statusCode = 200
    /\ Len(response.body.results) = 2
    /\ \E n \in 1..Len(writes) :
          response.body.results[n].sms_sent_count >
             Cardinality({ p \in SentSet(writes[n].i) : LastOutcome(writes[n].i, p) = Sid })

\* The phone numbers of the slots number1..number5 that exist, are SMS-enabled
\* and hold a phoneNumber, in slot order.
RECURSIVE PresentPhonesFrom(_, _)
PresentPhonesFrom(student, n) ==
    IF n > NumSlots THEN <<>>
    ELSE (IF /\ n \in DOMAIN student
             /\ student[n].smsEnabled = "True"
             /\ student[n].phoneNumber # None
          THEN <<student[n].phoneNumber>> ELSE <<>>)
         \o PresentPhonesFrom(student, n + 1)

\* C12 (as stated): a dispatched session sends to the not yet stored phones of a
\* list that holds, in slot order, exactly the phone numbers of the slots that
\* exist, are SMS-enabled and hold a phoneNumber; a slot that is SMS-enabled but
\* holds no phoneNumber contributes nothing, and a student with no other enabled
\* slot is never dispatched.
C12_EligibleListOnlyPresentPhones ==
    pc \in {"send", "put"} =>
        /\ PresentPhonesFrom(students_table[StudentName(sessions[i].summary)], 1) # <<>>
        /\ phones_to_send =
              SelectSeq(PresentPhonesFrom(students_table[StudentName(sessions[i].summary)], 1),
                        LAMBDA p : p \notin DOMAIN SmsSentOf(existing_reminder))

\* C13 (as stated): a session inside the window whose summary is exactly
\* "Tutoring" is left behind with no send, no write and no results entry,
\* whatever the student store holds.
C13_BareTutoringSkipped ==
    [][(/\ AtSession
        /\ ~MissingFields(sessions[i]) /\ ~ParseRaises(sessions[i])
        /\ InWindow(now_utc, sessions[i].utcStart)
        /\ sessions[i].summary = Tutoring) => SkipsSession]_vars
\* C13 (amended): of the summaries in the session store, the derived student name
\* is empty exactly for " Tutoring", the suffix with its leading space ("Tutoring"
\* alone keeps the name "Tutoring"); and a session inside the window whose derived
\* name is empty is left behind with no send, no write and no results entry,
\* whatever the student store holds.
C13_SuffixOnlySummarySkipped ==
    [][/\ \A n \in 1..Len(sessions) :
             StudentName(sessions[n].summary) = <<>> <=> sessions[n].summary = SpTutoring
       /\ (/\ AtSession
           /\ ~MissingFields(sessions[i]) /\ ~ParseRaises(sessions[i])
           /\ InWindow(now_utc, sessions[i].utcStart)
           /\ sessions[i].summary = SpTutoring) => SkipsSession
      ]_vars
\* A run has left a " Tutoring" session inside the window behind untouched and
\* has messaged the student named "Tutoring" for a "Tutoring" session.
C13_Witness ==
    \E j \in 1..Len(sessions), l \in 1..Len(sessions) :
        /\ sessions[j].summary = SpTutoring
        /\ InWindow(now_utc, sessions[j].utcStart)
        /\ (j < i \/ pc = "idle")
        /\ SentTo(j) = <<>> /\ ~Written(j)
        /\ sessions[l].summary = Tutoring
        /\ SentTo(l) # <<>>

\* C14: with two overlapping invocations, each one picks its phones by the answer
\* of its own get_item, whatever the store holds by the time of the send, and a
\* stored put_item replaces the sms_sent map of the uid by that answer's entries
\* and the invocation's own send outcomes, whatever the other invocation has
\* stored in between; so nothing keeps both from messaging one phone for one uid,
\* or the later put_item from dropping entries the other has written.
C14_ReadModifyWriteOnOwnSnapshot ==
    [][other' = other =>
         /\ Sends => sent'[Len(sent')].to \notin DOMAIN SmsSentOf(existing_reminder)
         /\ PutsStored =>
              /\ DOMAIN reminders_table'[uid].sms_sent =
                    DOMAIN SmsSentOf(existing_reminder) \cup SentSet(i)
              /\ \A p \in DOMAIN reminders_table'[uid].sms_sent :
                    reminders_table'[uid].sms_sent[p] =
                       IF p \in SentSet(i) THEN LastOutcome(i, p)
                       ELSE SmsSentOf(existing_reminder)[p]
      ]_vars
\* Both invocations have delivered a message to one phone for one uid, both have
\* stored their item for that uid, the one that stored it last after a get_item
\* that answered, and a phone the other invocation delivered to and stored is no
\* longer a key of the stored map.
C14_Witness ==
    \E m \in 1..Len(sent), n \in 1..Len(other.sent), l \in 1..Len(other.sent) :
        /\ sent[m].uid = other.sent[n].uid
        /\ sent[m].to = other.sent[n].to
        /\ sent[m].sid = Sid /\ other.sent[n].sid = Sid
        /\ \E w \in 1..Len(writes) :
              writes[w].uid = sent[m].uid /\ writes[w].ok /\ writes[w].lookup = "ok"
        /\ \E w \in 1..Len(other.writes) :
              other.writes[w].uid = sent[m].uid /\ other.writes[w].ok
        /\ other.sent[l].uid = sent[m].uid
        /\ other.sent[l].sid = Sid
        /\ sent[m].uid \in DOMAIN reminders_table
        /\ other.sent[l].to \notin StoredKeys(sent[m].uid)

\* C15: while scan_all_sessions is between two scan calls, the list collected is
\* the records before the last LastEvaluatedKey, each once and in store order,
\* and the next call starts after that key; once the session loop runs the list
\* is the whole store, each record once and in page order; and a run a scan
\* error ended has made no send and no write.
C15_ScanCollectsEveryPageOnce ==
    /\ pc = "scan" =>
          /\ sessions = SubSeq(sessions_table, 1, start_key)
          /\ pages < MaxPages
          /\ sent = <<>> /\ writes = <<>>
    /\ pc \in {"loop", "send", "put"} => sessions = sessions_table
    /\ (response.statusCode = 500 /\ response.body.error = "scan failed") =>
          /\ pc = "idle"
          /\ sent = <<>> /\ writes = <<>> /\ results = <<>>
\* The scan of a store of two records is between its first page, which held the
\* first record and a LastEvaluatedKey, and its second call.
C15_Witness ==
    /\ pc = "scan" /\ pages = 1 /\ start_key = 1
    /\ Len(sessions_table) = 2
    /\ sessions = <<sessions_table[1]>>

\* C16: no step of an invocation changes the session store; the student store
\* changes only between invocations, by its owner; no Reminder is ever deleted;
\* and the Reminder store changes only by a put_item that stores, under the uid
\* of the session being dispatched, a full item built from that session and the
\* sms_sent map of the dispatch, every other item staying as it was.
C16_OnlyFullReminderPuts ==
    [][/\ sessions_table' = sessions_table
       /\ pc # "idle" => students_table' = students_table
       /\ DOMAIN reminders_table \subseteq DOMAIN reminders_table'
       /\ reminders_table' # reminders_table =>
            /\ PutsStored
            /\ uid = <<sessions[i].summary, sessions[i].utcStart, sessions[i].utcEnd>>
            /\ DOMAIN reminders_table' = DOMAIN reminders_table \cup {uid}
            /\ \A u \in DOMAIN reminders_table \ {uid} :
                  reminders_table'[u] = reminders_table[u]
            /\ reminders_table'[uid] =
                  [uid |-> uid, summary |-> sessions[i].summary,
                   start_utc |-> sessions[i].utcStart, end_utc |-> sessions[i].utcEnd,
                   status |-> sessions[i].status, sms_sent |-> sms_sent]
      ]_vars
\* The run has stored the item of a session and then replaced it, under the same
\* uid, by the full item of a later session with another status; the session
\* store is as it was.
C16_Witness ==
    /\ sessions = sessions_table
    /\ \E j \in 1..Len(sessions), l \in 1..Len(sessions) :
          /\ j < l
          /\ Uid(sessions[j]) = Uid(sessions[l])
          /\ sessions[j].status # sessions[l].status
          /\ Written(j) /\ Written(l)
          /\ reminders_table[Uid(sessions[l])].status = sessions[l].status

\* The phones of the provider calls made for the j-th session, in call order.
AttemptsOf(j) == [n \in 1..Len(SentTo(j)) |-> SentTo(j)[n].to]

\* Inside a dispatch, the provider calls made so far are the phones of
\* phones_to_send up to the loop position, one call each, in list order,
\* whatever their outcomes were.
AttemptsFollowList ==
    /\ pc = "send" => AttemptsOf(i) = SubSeq(phones_to_send, 1, k - 1)
    /\ pc = "put" => AttemptsOf(i) = phones_to_send

\* C17 (as stated): inside a dispatch every phone of phones_to_send gets one
\* provider call, in list order, whatever the outcomes of the earlier calls; and
\* every session the run has sent for and left behind, or ended on, has its
\* Reminder stored and its results entry, even when every send failed.
C17_AllAttemptedThenWritten ==
    /\ AttemptsFollowList
    /\ \A j \in 1..Len(sessions) :
          (SentTo(j) # <<>> /\ (j < i \/ pc = "idle")) =>
              /\ Written(j)
              /\ \E n \in 1..Len(results) : results[n].summary = sessions[j].summary

\* After a 200 response, every session of the scan that was inside the window
\* with a non-empty derived name, whose student lookup did not raise and found
\* a student with an eligible phone, has a stored Reminder under its uid whose
\* sms_sent keys contain every eligible phone of that student.
RemindedAfterSuccess ==
    (pc = "idle" /\ response.statusCode = 200) =>
        \A j \in 1..Len(sessions) :
            (/\ Admitted(sessions[j])
             /\ ~StudentMissing(sessions[j])
             /\ j \notin student_errors
             /\ Eligible(sessions[j]) # {})
            => Eligible(sessions[j]) \subseteq StoredKeys(Uid(sessions[j]))

\* C18 (as stated): after a 200 response every such session is fully reminded,
\* and no run sends a message for a session that is fully reminded (so a second
\* run over unchanged data sends nothing at all).
C18_RemindedSoNoLaterSend ==
    [][/\ RemindedAfterSuccess
       /\ Sends => ~FullyReminded(sessions[i])]_vars
\* C18 (amended): after a 200 response every such session is fully reminded, and
\* a run sends a message for a fully reminded session only when its Reminder
\* lookup raised (so a second run over unchanged data sends nothing unless one of
\* its Reminder lookups raises).
C18_RemindedSoNoLaterSendAfterLookup ==
    [][/\ RemindedAfterSuccess
       /\ (Sends /\ reminder_lookup = "ok") => ~FullyReminded(sessions[i])]_vars
\* A run over a store that already holds both eligible phones of a found
\* student under the uid of a session it admitted has returned 200 with no send.
C18_Witness ==
    /\ pc = "idle" /\ response.statusCode = 200
    /\ sent = <<>>
    /\ \E j \in 1..Len(sessions) :
          /\ Admitted(sessions[j])
          /\ j \notin student_errors
          /\ Cardinality(Eligible(sessions[j])) = 2
          /\ Eligible(sessions[j]) \subseteq StoredKeys(Uid(sessions[j]))

SameOccurrence(j, l) ==
    /\ sessions[j].summary = sessions[l].summary
    /\ sessions[j].utcStart = sessions[l].utcStart
    /\ sessions[j].utcEnd = sessions[l].utcEnd

\* C20: when the run has stored the Reminder of an earlier record of the same
\* occurrence and the Reminder lookup of the present record does not raise, the
\* record is left behind with no send, no second write and no results entry:
\* the lookup shows the item just stored, which holds every eligible phone.
C20_SecondRecordOfOccurrenceSkipped ==
    [][(/\ AtSession
        /\ \E j \in 1..(i - 1) : SameOccurrence(j, i) /\ Written(j)
        /\ reminder_lookup' # "raised") => SkipsSession]_vars
\* A run has returned 200 with one results entry after a scan of two records of
\* one occurrence: it sent and wrote for the first and did neither for the
\* second, whose student lookup did not raise.
C20_Witness ==
    /\ pc = "idle" /\ response.statusCode = 200
    /\ Len(sessions) = 2 /\ SameOccurrence(1, 2)
    /\ SentTo(1) # <<>> /\ Written(1)
    /\ SentTo(2) = <<>> /\ ~Written(2)
    /\ 2 \notin student_errors
    /\ Len(response.body.results) = 1

====
